---- MODULE Spec2Model ----
\* Organization membership reconciliation (api/services/FederalistUsersHelper.js):
\* audit18F, refreshIsActiveUsers, revokeMembershipForInactiveUsers and
\* removeMembersWhoAreNotUsers, run against a roster (the User table) and a
\* GitHub organization (members, admins, teams) plus the '18F' reference org.
EXTENDS Integers, Sequences, FiniteSets, TLC

\* ---------------------------------------------------------------- names
\* A name is a sequence of characters, so that toLowerCase is computed.
Admin == <<"a", "d", "m", "i", "n">>
jane == <<"j", "a", "n", "e">>
Jane == <<"J", "a", "n", "e">>
bob == <<"b", "o", "b">>

\* config.federalistUsers.teams18F and one explicit fedUserTeams argument.
Teams18F == <<"t1", "t2">>
OtherTeams == <<"t2">>
TeamNames == {"t1", "t2"}

\* An argument the caller left out, and the row of a query that found none.
Undefined == <<"undefined">>
Null == <<"null">>

\* ---------------------------------------------------------------- bounds
\* How many days the clock may advance.
MaxTicks == 1
\* The largest team roster of an initial state.
MaxTeamSize == 2
\* The most admins besides the auditor, and the largest reference group, of an
\* initial state.
MaxGroupSize == 2
MAX_DAYS_SINCE_LOGIN == 90

\* The day of the initial state, and the cutoff of a run started then.
Clock0 == MAX_DAYS_SINCE_LOGIN + 10
Cutoff0 == Clock0 - MAX_DAYS_SINCE_LOGIN

\* ---------------------------------------------------------------- helpers
LowerChar(c) ==
  CASE c = "J" -> "j"
    [] c = "A" -> "a"
    [] c = "N" -> "n"
    [] c = "E" -> "e"
    [] OTHER -> c

\* String.prototype.toLowerCase, character by character.
toLowerCase(s) == [i \in 1..Len(s) |-> LowerChar(s[i])]

Range(q) == {q[i] : i \in 1..Len(q)}

\* Array.prototype.includes
Includes(q, x) == \E i \in 1..Len(q) : q[i] = x

\* The rows of a query or the members of a listing, as the array the caller gets.
RECURSIVE Rows(_)
Rows(S) ==
  IF S = {} THEN <<>>
  ELSE LET x == CHOOSE y \in S : TRUE IN <<x>> \o Rows(S \ {x})

\* teams.forEach(team => team.forEach(...)): the teams' members in visiting order.
RECURSIVE Flatten(_)
Flatten(qq) == IF qq = <<>> THEN <<>> ELSE Head(qq) \o Flatten(Tail(qq))

Count(q, x) == Cardinality({i \in 1..Len(q) : q[i] = x})

\* ---------------------------------------------------------------- state
VARIABLES
  roster,       \* the User table: username -> row
  orgMembers,   \* logins of the members of FEDERALIST_ORG
  orgAdmins,    \* logins of its members with role admin
  teamMembers,  \* team name -> logins of the team's members
  members18FOrg,\* logins of the members of the '18F' organization
  clock,        \* the current day (moment())
  run,          \* run id -> the invocation in that slot (its locals and its log)
  prev,         \* the invocation that returned last, while no other has started since
  sites,        \* the Site table: site id -> owner, Users, repository
  response      \* the Site API's answer to the last request, and what the request did

vars == <<roster, orgMembers, orgAdmins, teamMembers, members18FOrg, clock, run, prev,
          sites, response>>

EmptyRoster == [u \in {} |-> FALSE]

\* No site, and the Site API before its first request.
NoSites == [id \in {} |-> FALSE]
NoResponse ==
  [method |-> "none", csrf |-> FALSE, session |-> Undefined, siteId |-> "",
   userId |-> Undefined, access |-> FALSE,
   status |-> 0, message |-> "", before |-> NoSites, did |-> {}]

\* The organization as one value.
Org == [members |-> orgMembers, admins |-> orgAdmins, teams |-> teamMembers]

Idle ==
  [op |-> "idle", pc |-> "idle", outcome |-> "none", error |-> "none",
   auditorUsername |-> Undefined, fedUserTeams |-> <<>>, cutoff |-> 0,
   githubAccessToken |-> Undefined,
   members18F |-> <<>>, adminFedUsers |-> <<>>, teams |-> <<>>,
   logins |-> <<>>, users |-> <<>>, allUsernames |-> <<>>, allMemberLogins |-> <<>>,
   removals |-> <<>>,   \* the removal requests issued: [login, status]
   calls |-> <<>>,      \* the Roster Store and Directory Gateway calls made, in order
   updates |-> <<>>,    \* the rows the run's bulk updates wrote: [username, isActive]
   audits |-> <<>>,     \* EventCreator.audit events
   errors |-> <<>>,     \* EventCreator.error events
   infos |-> <<>>,      \* logger.info lines (the login of each)
   \* what the run started from, and whether it repeats the operation that returned
   \* last (again), with the same arguments (sameArgs), with the same cutoff (sameCutoff)
   startRoster |-> EmptyRoster, startOrg |-> [members |-> {}, admins |-> {}, teams |-> <<>>],
   startClock |-> 0,
   again |-> FALSE, sameArgs |-> FALSE, sameCutoff |-> FALSE,
   \* for audit18F: what the audit18F run that returned last left behind when one of
   \* its removals was rejected
   partial |-> [fedUserTeams |-> <<>>, removed |-> {}, failed |-> {}]]

RosterCalls == {"User.findOne", "User.findAll"}
OrgListingCalls == {"getOrganizationMembers", "getOrganizationMembers:admin", "getTeamMembers"}
ListingCalls == OrgListingCalls \cup {"getOrganizationMembers:18F"}

\* ---------------------------------------------------------------- collaborators
\* GitHub.removeOrganizationMember: the member leaves the organization, and with it
\* the admin list and every team. Logins are matched without regard to case.
SameLogin(a, b) == toLowerCase(a) = toLowerCase(b)
Without(S, login) == {m \in S : ~SameLogin(m, login)}

\* User.findOne({ where: { username } })
FindOne(username) == IF username \in DOMAIN roster THEN username ELSE Null

\* ---------------------------------------------------------------- the operations
\* auditorUsername = auditorUsername || config.federalistUsers.admin
DefaultAuditor(auditorUsername) ==
  IF auditorUsername = Undefined THEN Admin ELSE auditorUsername

\* fedUserTeams = fedUserTeams || config.federalistUsers.teams18F
DefaultTeams(fedUserTeams) ==
  IF fedUserTeams = Undefined THEN Teams18F ELSE fedUserTeams

\* No operation has returned since the last one started.
NoPartial == [fedUserTeams |-> <<>>, removed |-> {}, failed |-> {}]

NoPrev ==
  [op |-> "none", auditorUsername |-> Undefined, fedUserTeams |-> <<>>, cutoff |-> 0,
   partial |-> NoPartial]

Started(op, auditorUsername, fedUserTeams) ==
  [Idle EXCEPT !.op = op, !.pc = "findOne", !.outcome = "pending",
               !.auditorUsername = auditorUsername,
               !.fedUserTeams = fedUserTeams,
               !.startClock = clock,
               !.cutoff = clock - MAX_DAYS_SINCE_LOGIN,
               !.startRoster = roster, !.startOrg = Org,
               !.again = (prev.op = op),
               !.sameArgs = /\ prev.op = op
                            /\ prev.auditorUsername = auditorUsername
                            /\ prev.fedUserTeams = fedUserTeams,
               !.sameCutoff = (prev.op = op /\ prev.cutoff = clock - MAX_DAYS_SINCE_LOGIN),
               !.partial = IF op = "audit18F" THEN prev.partial ELSE NoPartial]

\* The slot a new invocation takes: the lowest idle one.
FreeSlot(r) ==
  /\ run[r].op = "idle"
  /\ \A q \in DOMAIN run : q < r => run[q].op # "idle"

AuditorArgs == {Undefined, jane}
TeamsArgs == {Undefined, OtherTeams}

UnchangedWorld ==
  UNCHANGED <<roster, orgMembers, orgAdmins, teamMembers, members18FOrg, clock,
              sites, response>>

StartAudit18F ==
  \E r \in DOMAIN run, a \in AuditorArgs, t \in TeamsArgs :
    /\ FreeSlot(r)
    /\ run' = [run EXCEPT ![r] = Started("audit18F", DefaultAuditor(a), DefaultTeams(t))]
    /\ prev' = NoPrev
    /\ UnchangedWorld

StartRefresh ==
  \E r \in DOMAIN run, a \in AuditorArgs :
    /\ FreeSlot(r)
    /\ run' = [run EXCEPT ![r] = Started("refreshIsActiveUsers", DefaultAuditor(a), <<>>)]
    /\ prev' = NoPrev
    /\ UnchangedWorld

StartRevoke ==
  \E r \in DOMAIN run, a \in AuditorArgs :
    /\ FreeSlot(r)
    /\ run' = [run EXCEPT ![r] =
                 Started("revokeMembershipForInactiveUsers", DefaultAuditor(a), <<>>)]
    /\ prev' = NoPrev
    /\ UnchangedWorld

StartRemoveMembers ==
  \E r \in DOMAIN run, a \in AuditorArgs :
    /\ FreeSlot(r)
    /\ run' = [run EXCEPT ![r] =
                 Started("removeMembersWhoAreNotUsers", DefaultAuditor(a), <<>>)]
    /\ prev' = NoPrev
    /\ UnchangedWorld

\* A call that failed: the operation rejects with its error.
Rejected(rec, call, error) ==
  [rec EXCEPT !.pc = "done", !.outcome = "rejected", !.error = error,
              !.calls = Append(rec.calls, call)]

\* The step that follows the auditor lookup in each operation.
AfterFindOneSkippingListing(op) ==
  CASE op = "audit18F" -> "getMembers18F"
    [] op = "refreshIsActiveUsers" -> "activate"
    [] op = "revokeMembershipForInactiveUsers" -> "findStale"
    [] op = "removeMembersWhoAreNotUsers" -> "findAll"

AfterFindOne(op) ==
  CASE op = "audit18F" -> "getMembers18F"
    [] op = "refreshIsActiveUsers" -> "getMembers"
    [] op = "revokeMembershipForInactiveUsers" -> "findStale"
    [] op = "removeMembersWhoAreNotUsers" -> "findAll"

FoundAuditorUnchecked(rec, found) ==
  [rec EXCEPT !.pc = AfterFindOne(rec.op),
              !.githubAccessToken = IF found = Null THEN Undefined ELSE found,
              !.calls = Append(rec.calls, "User.findOne")]

\* User.findOne({ where: { username: auditorUsername } }) and the read of
\* githubAccessToken off its result: a TypeError when the result is null.
FoundAuditor(rec, found) ==
  IF found = Null
  THEN Rejected(rec, "User.findOne", "TypeError")
  ELSE [rec EXCEPT !.pc = AfterFindOne(rec.op), !.githubAccessToken = found,
                   !.calls = Append(rec.calls, "User.findOne")]

FindAuditor ==
  \E r \in DOMAIN run, ok \in BOOLEAN :
    /\ run[r].pc = "findOne"
    /\ run' = [run EXCEPT ![r] =
                 IF ok THEN FoundAuditor(run[r], FindOne(run[r].auditorUsername))
                 ELSE Rejected(run[r], "User.findOne", "DatabaseError")]
    /\ UNCHANGED prev
    /\ UnchangedWorld

\* The removal requests a run issues for `logins`, and its state once they are out:
\* Promise.all of no request resolves at once.
Requests(logins) == [i \in 1..Len(logins) |-> [login |-> logins[i], status |-> "pending"]]

Issued(rec, logins) ==
  [rec EXCEPT !.removals = Requests(logins),
              !.pc = IF logins = <<>> THEN "done" ELSE "removing",
              !.outcome = IF logins = <<>> THEN "resolved" ELSE "pending"]

AllSettled(removals) == \A i \in 1..Len(removals) : removals[i].status # "pending"

\* ------------------------------------------------ audit18F
\* A listing or a query returned: the run keeps going at `pc`.
Called(rec, call, pc) == [rec EXCEPT !.calls = Append(rec.calls, call), !.pc = pc]

GetMembers18F ==
  \E r \in DOMAIN run, ok \in BOOLEAN :
    /\ run[r].pc = "getMembers18F"
    /\ run' = [run EXCEPT ![r] =
                 IF ok
                 THEN [Called(run[r], "getOrganizationMembers:18F", "getAdmins")
                         EXCEPT !.members18F = Rows(members18FOrg)]
                 ELSE Rejected(run[r], "getOrganizationMembers:18F", "TransientGatewayError")]
    /\ UNCHANGED prev
    /\ UnchangedWorld

GetAdmins ==
  \E r \in DOMAIN run, ok \in BOOLEAN :
    /\ run[r].pc = "getAdmins"
    /\ run' = [run EXCEPT ![r] =
                 IF ok
                 THEN [Called(run[r], "getOrganizationMembers:admin", "getTeams")
                         EXCEPT !.adminFedUsers = Rows(orgAdmins)]
                 ELSE Rejected(run[r], "getOrganizationMembers:admin", "TransientGatewayError")]
    /\ UNCHANGED prev
    /\ UnchangedWorld

\* The logins audit18F pushes a removal for, one per team occurrence.
ToRemove18FUnguarded(members18F, adminFedUsers, teams) ==
  SelectSeq(Flatten(teams),
            LAMBDA login : ~Includes(members18F, login) /\ ~Includes(adminFedUsers, login))

ToRemove18FFirstOnly(members18F, adminFedUsers, teams) ==
  LET all == IF Len(members18F) > 0
             THEN ToRemove18FUnguarded(members18F, adminFedUsers, teams) ELSE <<>>
  IN IF all = <<>> THEN <<>> ELSE <<Head(all)>>

ToRemove18FIgnoringAdmins(members18F, adminFedUsers, teams) ==
  IF Len(members18F) > 0
  THEN SelectSeq(Flatten(teams), LAMBDA login : ~Includes(members18F, login))
  ELSE <<>>

ToRemove18FOncePerLogin(members18F, adminFedUsers, teams) ==
  IF Len(members18F) > 0
  THEN Rows(Range(SelectSeq(Flatten(teams),
                            LAMBDA login : /\ ~Includes(members18F, login)
                                           /\ ~Includes(adminFedUsers, login))))
  ELSE <<>>

ToRemove18F(members18F, adminFedUsers, teams) ==
  IF Len(members18F) > 0
  THEN SelectSeq(Flatten(teams),
                 LAMBDA login : ~Includes(members18F, login) /\ ~Includes(adminFedUsers, login))
  ELSE <<>>

\* Promise.all of the team listings, then the forEach that pushes the removals
\* and logs each.
PrunedOneAtATime(rec, teams) ==
  LET removed == ToRemove18F(rec.members18F, rec.adminFedUsers, teams)
      first == IF removed = <<>> THEN <<>> ELSE <<Head(removed)>>
  IN [Issued(Called(rec, "getTeamMembers", "removing"), first)
        EXCEPT !.teams = teams, !.infos = first]

Pruned(rec, teams) ==
  LET removed == ToRemove18F(rec.members18F, rec.adminFedUsers, teams)
  IN [Issued(Called(rec, "getTeamMembers", "removing"), removed)
        EXCEPT !.teams = teams, !.infos = removed]

\* One of the team listings failed (`teams` holds what the others would have
\* returned): Promise.all rejects and the .then that pushes the removals never runs.
TeamListingFailedAfterFirstTeam(rec, teams) ==
  IF Len(teams) > 1
  THEN [Pruned(rec, <<teams[1]>>) EXCEPT !.outcome = "rejected",
                                         !.error = "TransientGatewayError"]
  ELSE Rejected(rec, "getTeamMembers", "TransientGatewayError")

TeamListingFailed(rec, teams) == Rejected(rec, "getTeamMembers", "TransientGatewayError")

GetTeams ==
  \E r \in DOMAIN run, ok \in BOOLEAN :
    /\ run[r].pc = "getTeams"
    /\ LET teams == [i \in 1..Len(run[r].fedUserTeams) |->
                      Rows(teamMembers[run[r].fedUserTeams[i]])]
       IN run' = [run EXCEPT ![r] =
                    IF ok THEN Pruned(run[r], teams) ELSE TeamListingFailed(run[r], teams)]
    /\ UNCHANGED prev
    /\ UnchangedWorld

\* One GitHub.removeOrganizationMember of audit18F settles; nothing catches its failure,
\* so the first failure rejects Promise.all while the other requests stay in flight.
PruneSettledCaught(rec, i, ok) ==
  LET removals == [rec.removals EXCEPT ![i].status = IF ok THEN "ok" ELSE "failed"]
  IN [rec EXCEPT
        !.removals = removals,
        !.errors = IF ok THEN @
                   ELSE Append(@, [label |-> "FEDERALIST_USERS", error |-> "RemovalError",
                                   login |-> rec.removals[i].login,
                                   action |-> "removeOrgMember"]),
        !.pc = IF AllSettled(removals) THEN "done" ELSE "removing",
        !.outcome = IF AllSettled(removals) THEN "resolved" ELSE @]

PruneSettled(rec, i, ok) ==
  LET removals == [rec.removals EXCEPT ![i].status = IF ok THEN "ok" ELSE "failed"]
      rejects == ~ok /\ rec.outcome = "pending"
  IN [rec EXCEPT !.removals = removals,
                 !.pc = IF AllSettled(removals) THEN "done" ELSE "removing",
                 !.outcome = IF rejects THEN "rejected"
                             ELSE IF AllSettled(removals) /\ @ = "pending" THEN "resolved"
                             ELSE @,
                 !.error = IF rejects THEN "RemovalError" ELSE @]

\* The directory after one removal request (none of it changes when the request fails).
RemovalEffect(login, ok) ==
  /\ orgMembers' = IF ok THEN Without(orgMembers, login) ELSE orgMembers
  /\ orgAdmins' = IF ok THEN Without(orgAdmins, login) ELSE orgAdmins
  /\ teamMembers' = IF ok THEN [t \in DOMAIN teamMembers |-> Without(teamMembers[t], login)]
                    ELSE teamMembers
  /\ UNCHANGED <<members18FOrg, clock, sites, response>>

PruneRemoval ==
  \E r \in DOMAIN run, ok \in BOOLEAN :
    \E i \in 1..Len(run[r].removals) :
      /\ run[r].op = "audit18F"
      /\ run[r].removals[i].status = "pending"
      /\ run' = [run EXCEPT ![r] = PruneSettled(run[r], i, ok)]
      /\ RemovalEffect(run[r].removals[i].login, ok)
      /\ UNCHANGED <<roster, prev>>

\* ------------------------------------------------ refreshIsActiveUsers
\* members.map(m => m.login.toLowerCase())
RefreshLoginsAsListed(members) == members
RefreshLogins(members) == [i \in 1..Len(members) |-> toLowerCase(members[i])]

RefreshGetMembers ==
  \E r \in DOMAIN run, ok \in BOOLEAN :
    /\ run[r].pc = "getMembers"
    /\ run' = [run EXCEPT ![r] =
                 IF ok
                 THEN [Called(run[r], "getOrganizationMembers", "activate")
                         EXCEPT !.logins = RefreshLogins(Rows(orgMembers))]
                 ELSE Rejected(run[r], "getOrganizationMembers", "TransientGatewayError")]
    /\ UNCHANGED prev
    /\ UnchangedWorld

\* where: { username: { [Op.in]: logins }, isActive: false }
ToActivateAnyListed(rows, logins) == {u \in DOMAIN rows : Includes(logins, u)}

ToActivate(rows, logins) ==
  {u \in DOMAIN rows : Includes(logins, u) /\ rows[u].isActive = FALSE}

\* where: { username: { [Op.notIn]: logins }, isActive: true }
ToDeactivateAnyUnlisted(rows, logins) == {u \in DOMAIN rows : ~Includes(logins, u)}

ToDeactivateListed(rows, logins) ==
  {u \in DOMAIN rows : Includes(logins, u) /\ rows[u].isActive = TRUE}

ToDeactivateGuarded(rows, logins) ==
  IF Len(logins) > 0
  THEN {u \in DOMAIN rows : ~Includes(logins, u) /\ rows[u].isActive = TRUE}
  ELSE {}

ToDeactivate(rows, logins) ==
  {u \in DOMAIN rows : ~Includes(logins, u) /\ rows[u].isActive = TRUE}

\* User.update({ isActive }, { where, returning }): the table after it.
Updated(rows, matched, isActive) ==
  [u \in DOMAIN rows |-> IF u \in matched THEN [rows[u] EXCEPT !.isActive = isActive]
                         ELSE rows[u]]

\* The update's returned rows, and one EventCreator.audit per returned row.
AuditedWithOldValue(rec, matched, isActive) ==
  LET returned == Rows(matched)
      row(i) == [username |-> returned[i], isActive |-> isActive]
  IN [rec EXCEPT
        !.updates = rec.updates \o [i \in 1..Len(returned) |-> row(i)],
        !.audits = rec.audits \o
                     [i \in 1..Len(returned) |->
                        [label |-> "UPDATED", username |-> returned[i],
                         action |-> [isActive |-> ~isActive]]]]

Audited(rec, matched, isActive) ==
  LET returned == Rows(matched)
      row(i) == [username |-> returned[i], isActive |-> isActive]
  IN [rec EXCEPT
        !.updates = rec.updates \o [i \in 1..Len(returned) |-> row(i)],
        !.audits = rec.audits \o
                     [i \in 1..Len(returned) |->
                        [label |-> "UPDATED", username |-> returned[i],
                         action |-> [isActive |-> isActive]]]]

ActivateUsersFromSnapshot ==
  \E r \in DOMAIN run, ok \in BOOLEAN :
    /\ run[r].pc = "activate"
    /\ LET matched == ToActivate(run[r].startRoster, run[r].logins)
       IN IF ok
          THEN /\ roster' = Updated(roster, matched, TRUE)
               /\ run' = [run EXCEPT ![r] =
                            Audited(Called(run[r], "User.update", "deactivate"), matched, TRUE)]
          ELSE /\ roster' = roster
               /\ run' = [run EXCEPT ![r] = Rejected(run[r], "User.update", "DatabaseError")]
    /\ UNCHANGED <<orgMembers, orgAdmins, teamMembers, members18FOrg, clock, prev,
                   sites, response>>

ActivateUsers ==
  \E r \in DOMAIN run, ok \in BOOLEAN :
    /\ run[r].pc = "activate"
    /\ LET matched == ToActivate(roster, run[r].logins)
       IN IF ok
          THEN /\ roster' = Updated(roster, matched, TRUE)
               /\ run' = [run EXCEPT ![r] =
                            Audited(Called(run[r], "User.update", "deactivate"), matched, TRUE)]
          ELSE /\ roster' = roster
               /\ run' = [run EXCEPT ![r] = Rejected(run[r], "User.update", "DatabaseError")]
    /\ UNCHANGED <<orgMembers, orgAdmins, teamMembers, members18FOrg, clock, prev,
                   sites, response>>

DeactivateUsersRollingBack ==
  \E r \in DOMAIN run, ok \in BOOLEAN :
    /\ run[r].pc = "deactivate"
    /\ LET matched == ToDeactivate(roster, run[r].logins)
       IN IF ok
          THEN /\ roster' = Updated(roster, matched, FALSE)
               /\ run' = [run EXCEPT ![r] =
                            [Audited(Called(run[r], "User.update", "done"), matched, FALSE)
                               EXCEPT !.outcome = "resolved"]]
          ELSE /\ roster' = run[r].startRoster
               /\ run' = [run EXCEPT ![r] = Rejected(run[r], "User.update", "DatabaseError")]
    /\ UNCHANGED <<orgMembers, orgAdmins, teamMembers, members18FOrg, clock, prev,
                   sites, response>>

DeactivateUsers ==
  \E r \in DOMAIN run, ok \in BOOLEAN :
    /\ run[r].pc = "deactivate"
    /\ LET matched == ToDeactivate(roster, run[r].logins)
       IN IF ok
          THEN /\ roster' = Updated(roster, matched, FALSE)
               /\ run' = [run EXCEPT ![r] =
                            [Audited(Called(run[r], "User.update", "done"), matched, FALSE)
                               EXCEPT !.outcome = "resolved"]]
          ELSE /\ roster' = roster
               /\ run' = [run EXCEPT ![r] = Rejected(run[r], "User.update", "DatabaseError")]
    /\ UNCHANGED <<orgMembers, orgAdmins, teamMembers, members18FOrg, clock, prev,
                   sites, response>>

\* ------------------------------------------------ removeMember
\* GitHub.removeOrganizationMember(...).catch(error => EventCreator.error(...)):
\* a failed request becomes one error event and the promise still fulfils.
MemberSettledUncaught(rec, i, ok) ==
  LET removals == [rec.removals EXCEPT ![i].status = IF ok THEN "ok" ELSE "failed"]
      rejects == ~ok /\ rec.outcome = "pending"
  IN [rec EXCEPT !.removals = removals,
                 !.pc = IF AllSettled(removals) THEN "done" ELSE "removing",
                 !.outcome = IF rejects THEN "rejected"
                             ELSE IF AllSettled(removals) /\ @ = "pending" THEN "resolved"
                             ELSE @,
                 !.error = IF rejects THEN "RemovalError" ELSE @]

MemberSettledUnreported(rec, i, ok) ==
  LET removals == [rec.removals EXCEPT ![i].status = IF ok THEN "ok" ELSE "failed"]
  IN [rec EXCEPT
        !.removals = removals,
        !.pc = IF AllSettled(removals) THEN "done" ELSE "removing",
        !.outcome = IF AllSettled(removals) THEN "resolved" ELSE @]

MemberSettledAtFirst(rec, i, ok) ==
  LET removals == [rec.removals EXCEPT ![i].status = IF ok THEN "ok" ELSE "failed"]
  IN [rec EXCEPT
        !.removals = removals,
        !.errors = IF ok THEN @
                   ELSE Append(@, [label |-> "FEDERALIST_USERS", error |-> "RemovalError",
                                   login |-> rec.removals[i].login,
                                   action |-> "removeOrgMember"]),
        !.pc = IF AllSettled(removals) THEN "done" ELSE "removing",
        !.outcome = "resolved"]

MemberSettled(rec, i, ok) ==
  LET removals == [rec.removals EXCEPT ![i].status = IF ok THEN "ok" ELSE "failed"]
  IN [rec EXCEPT
        !.removals = removals,
        !.errors = IF ok THEN @
                   ELSE Append(@, [label |-> "FEDERALIST_USERS", error |-> "RemovalError",
                                   login |-> rec.removals[i].login,
                                   action |-> "removeOrgMember"]),
        !.pc = IF AllSettled(removals) THEN "done" ELSE "removing",
        !.outcome = IF AllSettled(removals) THEN "resolved" ELSE @]

RemoveMemberThenDeactivate ==
  \E r \in DOMAIN run, ok \in BOOLEAN :
    \E i \in 1..Len(run[r].removals) :
      /\ run[r].op \in {"revokeMembershipForInactiveUsers", "removeMembersWhoAreNotUsers"}
      /\ run[r].removals[i].status = "pending"
      /\ run' = [run EXCEPT ![r] = MemberSettled(run[r], i, ok)]
      /\ RemovalEffect(run[r].removals[i].login, ok)
      /\ roster' = [u \in DOMAIN roster |->
                      IF ok /\ u = run[r].removals[i].login
                      THEN [roster[u] EXCEPT !.isActive = FALSE] ELSE roster[u]]
      /\ UNCHANGED prev

RemoveMember ==
  \E r \in DOMAIN run, ok \in BOOLEAN :
    \E i \in 1..Len(run[r].removals) :
      /\ run[r].op \in {"revokeMembershipForInactiveUsers", "removeMembersWhoAreNotUsers"}
      /\ run[r].removals[i].status = "pending"
      /\ run' = [run EXCEPT ![r] = MemberSettled(run[r], i, ok)]
      /\ RemovalEffect(run[r].removals[i].login, ok)
      /\ UNCHANGED <<roster, prev>>

\* ------------------------------------------------ revokeMembershipForInactiveUsers
\* where: { isActive: true, signedInAt < cutoff, pushedAt < cutoff, createdAt < cutoff }
StaleUsersIgnoringCreatedAt(rows, cutoff) ==
  {u \in DOMAIN rows :
     /\ rows[u].isActive = TRUE
     /\ rows[u].signedInAt < cutoff
     /\ rows[u].pushedAt < cutoff}

StaleUsersAtOrBeforeCutoff(rows, cutoff) ==
  {u \in DOMAIN rows :
     /\ rows[u].isActive = TRUE
     /\ rows[u].signedInAt <= cutoff
     /\ rows[u].pushedAt <= cutoff
     /\ rows[u].createdAt <= cutoff}

StaleUsers(rows, cutoff) ==
  {u \in DOMAIN rows :
     /\ rows[u].isActive = TRUE
     /\ rows[u].signedInAt < cutoff
     /\ rows[u].pushedAt < cutoff
     /\ rows[u].createdAt < cutoff}

\* User.findAll of the stale rows, then Promise.all(users.map(removeMember)).
FindStaleMembersOnly ==
  \E r \in DOMAIN run, ok \in BOOLEAN :
    /\ run[r].pc = "findStale"
    /\ run' = [run EXCEPT ![r] =
                 IF ok
                 THEN LET users == Rows({u \in StaleUsers(roster, run[r].cutoff) :
                                          \E m \in orgMembers : SameLogin(m, u)})
                      IN [Issued(Called(run[r], "User.findAll", "removing"), users)
                            EXCEPT !.users = users]
                 ELSE Rejected(run[r], "User.findAll", "DatabaseError")]
    /\ UNCHANGED prev
    /\ UnchangedWorld

FindStaleSparingAuditor ==
  \E r \in DOMAIN run, ok \in BOOLEAN :
    /\ run[r].pc = "findStale"
    /\ run' = [run EXCEPT ![r] =
                 IF ok
                 THEN LET users == Rows(StaleUsers(roster, run[r].cutoff)
                                          \ {run[r].auditorUsername})
                      IN [Issued(Called(run[r], "User.findAll", "removing"), users)
                            EXCEPT !.users = users]
                 ELSE Rejected(run[r], "User.findAll", "DatabaseError")]
    /\ UNCHANGED prev
    /\ UnchangedWorld

FindStale ==
  \E r \in DOMAIN run, ok \in BOOLEAN :
    /\ run[r].pc = "findStale"
    /\ run' = [run EXCEPT ![r] =
                 IF ok
                 THEN LET users == Rows(StaleUsers(roster, run[r].cutoff))
                      IN [Issued(Called(run[r], "User.findAll", "removing"), users)
                            EXCEPT !.users = users]
                 ELSE Rejected(run[r], "User.findAll", "DatabaseError")]
    /\ UNCHANGED prev
    /\ UnchangedWorld

\* ------------------------------------------------ removeMembersWhoAreNotUsers
FindAllUsers ==
  \E r \in DOMAIN run, ok \in BOOLEAN :
    /\ run[r].pc = "findAll"
    /\ run' = [run EXCEPT ![r] =
                 IF ok
                 THEN [Called(run[r], "User.findAll", "getAllMembers")
                         EXCEPT !.allUsernames = Rows(DOMAIN roster)]
                 ELSE Rejected(run[r], "User.findAll", "DatabaseError")]
    /\ UNCHANGED prev
    /\ UnchangedWorld

\* allMemberLogins.filter(login => !allUsernames.includes(login.toLowerCase()))
MemberLoginsToRemoveAsListed(allMemberLogins, allUsernames) ==
  SelectSeq(allMemberLogins, LAMBDA login : ~Includes(allUsernames, login))

MemberLoginsToRemove(allMemberLogins, allUsernames) ==
  SelectSeq(allMemberLogins, LAMBDA login : ~Includes(allUsernames, toLowerCase(login)))

RemoveGetMembers ==
  \E r \in DOMAIN run, ok \in BOOLEAN :
    /\ run[r].pc = "getAllMembers"
    /\ run' = [run EXCEPT ![r] =
                 IF ok
                 THEN LET allMemberLogins == Rows(orgMembers)
                      IN [Issued(Called(run[r], "getOrganizationMembers", "removing"),
                                 MemberLoginsToRemove(allMemberLogins, run[r].allUsernames))
                            EXCEPT !.allMemberLogins = allMemberLogins]
                 ELSE Rejected(run[r], "getOrganizationMembers", "TransientGatewayError")]
    /\ UNCHANGED prev
    /\ UnchangedWorld

\* ------------------------------------------------ the scheduler and the clock
\* Every request of the run succeeded and the run resolved.
Clean(rec) ==
  /\ rec.outcome = "resolved"
  /\ \A i \in 1..Len(rec.removals) : rec.removals[i].status = "ok"

\* The logins an audit18F run removed and those it failed to remove, when Promise.all
\* rejected on a removal.
Partial(rec) ==
  IF rec.op = "audit18F" /\ rec.error = "RemovalError"
  THEN [fedUserTeams |-> rec.fedUserTeams,
        removed |-> {rec.removals[i].login :
                       i \in {j \in 1..Len(rec.removals) : rec.removals[j].status = "ok"}},
        failed |-> {rec.removals[i].login :
                      i \in {j \in 1..Len(rec.removals) : rec.removals[j].status = "failed"}}]
  ELSE NoPartial

\* The caller has the run's result; the next invocation may start.
Return ==
  \E r \in DOMAIN run :
    /\ run[r].pc = "done"
    /\ prev' = IF Clean(run[r])
               THEN [op |-> run[r].op, auditorUsername |-> run[r].auditorUsername,
                     fedUserTeams |-> run[r].fedUserTeams, cutoff |-> run[r].cutoff,
                     partial |-> NoPartial]
               ELSE [NoPrev EXCEPT !.partial = Partial(run[r])]
    /\ run' = [run EXCEPT ![r] = Idle]
    /\ UnchangedWorld

\* A day passes. The clock is read only when an operation is invoked (moment() comes
\* before the first await), so a day passing during a run is a day passing before the
\* next invocation.
Tick ==
  /\ \E r \in DOMAIN run : run[r].op = "idle"
  /\ clock < Clock0 + MaxTicks
  /\ clock' = clock + 1
  /\ UNCHANGED <<roster, orgMembers, orgAdmins, teamMembers, members18FOrg, run, prev,
                 sites, response>>

Next ==
  \/ StartAudit18F
  \/ StartRefresh
  \/ StartRevoke
  \/ StartRemoveMembers
  \/ FindAuditor
  \/ GetMembers18F
  \/ GetAdmins
  \/ GetTeams
  \/ PruneRemoval
  \/ RefreshGetMembers
  \/ ActivateUsers
  \/ DeactivateUsers
  \/ FindStale
  \/ FindAllUsers
  \/ RemoveGetMembers
  \/ RemoveMember
  \/ Return
  \/ Tick

\* ---------------------------------------------------------------- initial states
Timestamps == {Cutoff0 - 1, Cutoff0, Cutoff0 + 1}

Entries ==
  [isActive : BOOLEAN, signedInAt : Timestamps, pushedAt : Timestamps, createdAt : Timestamps]

\* A row whose three timestamps are all before the cutoff.
StaleEntry(isActive) ==
  [isActive |-> isActive, signedInAt |-> Cutoff0 - 1, pushedAt |-> Cutoff0 - 1,
   createdAt |-> Cutoff0 - 1]

\* The tables with usernames among `names` and rows among `rows`.
Rosters(names, rows) == UNION {[S -> rows] : S \in SUBSET names}

\* GitHub logins are unique without regard to case.
Directory(S) == \A a, b \in S : SameLogin(a, b) => a = b

UpTo(S, n) == {T \in SUBSET S : Cardinality(T) <= n}

NoTeams == [t \in TeamNames |-> {}]

InitRuns ==
  /\ clock = Clock0
  /\ run = [r \in {1} |-> Idle]
  /\ prev = NoPrev
  /\ sites = NoSites
  /\ response = NoResponse

\* Rosters and member lists that differ in names and in letter case.
InitCase ==
  /\ roster \in Rosters({Admin, jane, Jane}, {StaleEntry(TRUE), StaleEntry(FALSE)})
  /\ orgMembers \in {S \in SUBSET {Admin, jane, Jane} : Directory(S)}
  /\ orgAdmins = orgMembers \cap {Admin}
  /\ teamMembers = NoTeams
  /\ members18FOrg = {}
  /\ InitRuns

\* Rows on every side of the cutoff.
InitStale ==
  /\ roster \in {[u \in {Admin, jane, bob} |->
                    IF u = Admin THEN a ELSE IF u = jane THEN e ELSE StaleEntry(TRUE)] :
                 a \in {StaleEntry(TRUE)}, e \in Entries}
  /\ orgMembers = {Admin, Jane, bob}
  /\ orgAdmins = {Admin}
  /\ teamMembers = NoTeams
  /\ members18FOrg = {}
  /\ InitRuns

\* Teams, admins and reference group of every content.
InitDirectory ==
  /\ roster = [u \in {Admin} |-> StaleEntry(TRUE)]
  /\ orgMembers = {Admin, Jane, bob}
  /\ orgAdmins \in {{Admin} \cup A : A \in UpTo({Jane, bob}, MaxGroupSize)}
  /\ teamMembers \in [TeamNames -> UpTo({Jane, bob}, MaxTeamSize)]
  /\ members18FOrg \in UpTo({Admin, Jane}, MaxGroupSize)
  /\ InitRuns

Init == InitCase \/ InitStale \/ InitDirectory

Spec == Init /\ [][Next]_vars

\* ------------------------------------------------ two invocations at once
\* The job runner invokes a removal operation twice, the second invocation possibly
\* before the first has settled; nothing in the module serialises them.
InitTwoRuns ==
  /\ roster \in {[u \in {Admin} |-> StaleEntry(TRUE)]}
                \cup {[u \in {Admin, jane} |-> IF u = Admin THEN StaleEntry(TRUE) ELSE e] :
                        e \in {StaleEntry(TRUE),
                               [StaleEntry(TRUE) EXCEPT !.createdAt = Cutoff0]}}
  /\ orgMembers = {Admin, Jane, bob}
  /\ orgAdmins = {Admin}
  /\ teamMembers = NoTeams
  /\ members18FOrg = {}
  /\ clock = Clock0
  /\ run = [r \in {1, 2} |-> Idle]
  /\ prev = NoPrev
  /\ sites = NoSites
  /\ response = NoResponse

NextTwoRuns ==
  \/ StartRevoke
  \/ StartRemoveMembers
  \/ FindAuditor
  \/ FindStale
  \/ FindAllUsers
  \/ RemoveGetMembers
  \/ RemoveMember
  \/ Tick

SpecTwoRuns == InitTwoRuns /\ [][NextTwoRuns]_vars

\* ---------------------------------------------------------------- two refresh runs
\* Two invocations of refreshIsActiveUsers whose awaits interleave, over a member list
\* that nothing changes meanwhile.
InitTwoRefreshes ==
  /\ roster \in Rosters({Admin, jane, bob}, {StaleEntry(TRUE), StaleEntry(FALSE)})
  /\ orgMembers \in SUBSET {Admin, Jane, bob}
  /\ orgAdmins = orgMembers \cap {Admin}
  /\ teamMembers = NoTeams
  /\ members18FOrg = {}
  /\ clock = Clock0
  /\ run = [r \in {1, 2} |-> Idle]
  /\ prev = NoPrev
  /\ sites = NoSites
  /\ response = NoResponse

NextTwoRefreshes ==
  \/ StartRefresh
  \/ FindAuditor
  \/ RefreshGetMembers
  \/ ActivateUsers
  \/ DeactivateUsers

SpecTwoRefreshes == InitTwoRefreshes /\ [][NextTwoRefreshes]_vars

\* ------------------------------------------------ the Site API
\* The requests of the Site API's request tests and the answers the tests expect of
\* the site controller.
SiteUsers == {Admin, jane, bob}
\* The user ids a request may name: the User rows and one id with no row.
UserIds == SiteUsers \cup {Jane}
\* unauthenticatedSession()
NoSession == <<"unauthenticated">>
\* The site the factory made and an id with no site.
SiteIds == {"1", "1000"}
\* Path parameters that are no numbers.
NotASiteId == "a-site"
NotAUserId == <<"a-user">>
Repositories == {"old-repo-name", "new-repo-name"}

authErrorMessage ==
  "You are not permitted to perform this action. Are you sure you are logged in?"

Answer(status, message) == [status |-> status, message |-> message]

\* DELETE /v0/site/:site_id/user/:user_id: the checks in the order they are made;
\* `access` is what GitHub reports of the requester's permissions on the repository.
RemoveUserAnswerKeepingNobody(csrf, session, siteId, userId, access) ==
  IF ~csrf THEN Answer(403, "Invalid CSRF token")
  ELSE IF session = NoSession THEN Answer(403, authErrorMessage)
  ELSE IF siteId = NotASiteId \/ userId = NotAUserId THEN Answer(400, "Bad Request")
  ELSE IF siteId \notin DOMAIN sites THEN Answer(404, "Not found")
  ELSE IF ~access THEN Answer(400, "WRITE_ACCESS_REQUIRED")
  ELSE IF userId \notin sites[siteId].users THEN Answer(404, "NO_ASSOCIATED_USER")
  ELSE IF userId = sites[siteId].owner THEN Answer(400, "OWNER_REMOVE")
  ELSE Answer(200, "OK")

RemoveUserAnswerOwnerMayLeave(csrf, session, siteId, userId, access) ==
  IF ~csrf THEN Answer(403, "Invalid CSRF token")
  ELSE IF session = NoSession THEN Answer(403, authErrorMessage)
  ELSE IF siteId = NotASiteId \/ userId = NotAUserId THEN Answer(400, "Bad Request")
  ELSE IF siteId \notin DOMAIN sites THEN Answer(404, "Not found")
  ELSE IF Cardinality(sites[siteId].users) = 1 THEN Answer(400, "USER_REQUIRED")
  ELSE IF ~access THEN Answer(400, "WRITE_ACCESS_REQUIRED")
  ELSE IF userId \notin sites[siteId].users THEN Answer(404, "NO_ASSOCIATED_USER")
  ELSE IF userId = sites[siteId].owner /\ session # userId THEN Answer(400, "OWNER_REMOVE")
  ELSE Answer(200, "OK")

RemoveUserAnswer(csrf, session, siteId, userId, access) ==
  IF ~csrf THEN Answer(403, "Invalid CSRF token")
  ELSE IF session = NoSession THEN Answer(403, authErrorMessage)
  ELSE IF siteId = NotASiteId \/ userId = NotAUserId THEN Answer(400, "Bad Request")
  ELSE IF siteId \notin DOMAIN sites THEN Answer(404, "Not found")
  ELSE IF Cardinality(sites[siteId].users) = 1 THEN Answer(400, "USER_REQUIRED")
  ELSE IF ~access THEN Answer(400, "WRITE_ACCESS_REQUIRED")
  ELSE IF userId \notin sites[siteId].users THEN Answer(404, "NO_ASSOCIATED_USER")
  ELSE IF userId = sites[siteId].owner THEN Answer(400, "OWNER_REMOVE")
  ELSE Answer(200, "OK")

\* What the Site API answered, to which request, and what the request did.
Responded(request, answer, did) ==
  [method |-> request.method, csrf |-> request.csrf, session |-> request.session,
   siteId |-> request.siteId, userId |-> request.userId, access |-> request.access,
   status |-> answer.status, message |-> answer.message, before |-> sites,
   did |-> IF answer.status = 200 THEN did ELSE {}]

\* A request on a site: the userId and the GitHub permissions matter to
\* DELETE /v0/site/:site_id/user/:user_id only.
SiteRequest(method, csrf, session, siteId) ==
  [method |-> method, csrf |-> csrf, session |-> session, siteId |-> siteId,
   userId |-> Undefined, access |-> FALSE]

UnchangedUsersAndOrganization ==
  UNCHANGED <<roster, orgMembers, orgAdmins, teamMembers, members18FOrg, clock, run, prev>>

DeleteSiteUser ==
  \E csrf \in BOOLEAN, session \in SiteUsers \cup {NoSession},
     siteId \in SiteIds \cup {NotASiteId}, userId \in UserIds \cup {NotAUserId},
     access \in BOOLEAN :
    LET answer == RemoveUserAnswer(csrf, session, siteId, userId, access)
    IN /\ sites' = IF answer.status = 200
                   THEN [sites EXCEPT ![siteId].users = @ \ {userId}]
                   ELSE sites
       /\ response' = Responded([method |-> "DELETE /v0/site/:site_id/user/:user_id",
                                 csrf |-> csrf, session |-> session, siteId |-> siteId,
                                 userId |-> userId, access |-> access],
                                answer, {"UserAction"})
       /\ UnchangedUsersAndOrganization

\* GET, PUT and DELETE /v0/site/:id: the session's user must be one of the site's.
SiteAnswerForAnyUser(csrf, session, siteId) ==
  IF ~csrf THEN Answer(403, "Invalid CSRF token")
  ELSE IF session = NoSession THEN Answer(403, authErrorMessage)
  ELSE IF siteId \notin DOMAIN sites THEN Answer(404, "Not found")
  ELSE Answer(200, "OK")

SiteAnswer(csrf, session, siteId) ==
  IF ~csrf THEN Answer(403, "Invalid CSRF token")
  ELSE IF session = NoSession THEN Answer(403, authErrorMessage)
  ELSE IF siteId \notin DOMAIN sites THEN Answer(404, "Not found")
  ELSE IF session \notin sites[siteId].users THEN Answer(403, "Forbidden")
  ELSE Answer(200, "OK")

\* GET carries no csrf token.
GetSite ==
  \E session \in SiteUsers \cup {NoSession}, siteId \in SiteIds :
    /\ sites' = sites
    /\ response' = Responded(SiteRequest("GET /v0/site/:id", TRUE, session, siteId),
                             SiteAnswer(TRUE, session, siteId), {})
    /\ UnchangedUsersAndOrganization

PutSite ==
  \E csrf \in BOOLEAN, session \in SiteUsers \cup {NoSession}, siteId \in SiteIds,
     repository \in Repositories :
    LET answer == SiteAnswer(csrf, session, siteId)
    IN /\ sites' = IF answer.status = 200
                   THEN [sites EXCEPT ![siteId].repository = repository]
                   ELSE sites
       /\ response' = Responded(SiteRequest("PUT /v0/site/:id", csrf, session, siteId),
                                answer, {"Build"})
       /\ UnchangedUsersAndOrganization

DeleteSite ==
  \E csrf \in BOOLEAN, session \in SiteUsers \cup {NoSession}, siteId \in SiteIds :
    LET answer == SiteAnswer(csrf, session, siteId)
    IN /\ sites' = IF answer.status = 200
                   THEN [id \in DOMAIN sites \ {siteId} |-> sites[id]]
                   ELSE sites
       /\ response' = Responded(SiteRequest("DELETE /v0/site/:id", csrf, session, siteId),
                                answer, {"S3SiteRemover.removeSite"})
       /\ UnchangedUsersAndOrganization

\* factory.site({ owner, users, repository }): one site with at least one user.
InitSite ==
  /\ roster = [u \in SiteUsers |-> StaleEntry(TRUE)]
  /\ orgMembers = {}
  /\ orgAdmins = {}
  /\ teamMembers = NoTeams
  /\ members18FOrg = {}
  /\ clock = Clock0
  /\ run = [r \in {1} |-> Idle]
  /\ prev = NoPrev
  /\ sites \in {[id \in {"1"} |-> [owner |-> owner, users |-> users,
                                  repository |-> "old-repo-name"]] :
                 owner \in {Admin, jane}, users \in SUBSET SiteUsers \ {{}}}
  /\ response = NoResponse

NextSite ==
  \/ DeleteSiteUser
  \/ GetSite
  \/ PutSite
  \/ DeleteSite

SpecSite == InitSite /\ [][NextSite]_vars

\* ---------------------------------------------------------------- properties
Revoke == "revokeMembershipForInactiveUsers"
RemoveMembers == "removeMembersWhoAreNotUsers"
Refresh == "refreshIsActiveUsers"

\* The logins of the removal requests a run has issued.
RemovalLogins(rec) == [i \in 1..Len(rec.removals) |-> rec.removals[i].login]

\* The run got the result of `call` (a failed call rejects with `error`).
Returned(rec, call, error) == Includes(rec.calls, call) /\ rec.error # error

Failed(rec) == {i \in 1..Len(rec.removals) : rec.removals[i].status = "failed"}

\* C1: once the reference group listing of an audit18F run has returned empty, the
\* run issues no removal request (and logs none), whatever the teams and the admin
\* list hold, and the organization stays as the run found it.
C1_EmptyReferenceGroupNoRemoval ==
  \A r \in DOMAIN run :
    (/\ run[r].op = "audit18F"
     /\ Returned(run[r], "getOrganizationMembers:18F", "TransientGatewayError")
     /\ run[r].members18F = <<>>)
    => /\ run[r].removals = <<>>
       /\ run[r].infos = <<>>
       /\ Org = run[r].startOrg

\* An audit18F run that resolved on an empty reference group although a team held
\* a member who is no admin.
C1_Witness ==
  \E r \in DOMAIN run :
    /\ run[r].op = "audit18F"
    /\ run[r].outcome = "resolved"
    /\ run[r].members18F = <<>>
    /\ run[r].adminFedUsers # <<>>
    /\ \E login \in Range(Flatten(run[r].teams)) : ~Includes(run[r].adminFedUsers, login)
    /\ run[r].removals = <<>>

\* C2: a revoke run that has selected its stale rows has issued exactly one removal
\* request per selected row, has emitted exactly one error event (error, login,
\* action removeOrgMember) per failed removal and none for a successful one, never
\* rejects, and has resolved once every removal has settled.
C2_RevokeIsolatesFailures ==
  \A r \in DOMAIN run :
    (run[r].op = Revoke /\ Returned(run[r], "User.findAll", "DatabaseError"))
    => /\ Range(run[r].users) = StaleUsers(run[r].startRoster, run[r].cutoff)
       /\ RemovalLogins(run[r]) = run[r].users
       /\ \A i, j \in 1..Len(run[r].users) : run[r].users[i] = run[r].users[j] => i = j
       /\ Len(run[r].errors) = Cardinality(Failed(run[r]))
       /\ \A i \in Failed(run[r]) :
            Count(run[r].errors,
                  [label |-> "FEDERALIST_USERS", error |-> "RemovalError",
                   login |-> run[r].removals[i].login, action |-> "removeOrgMember"]) = 1
       /\ run[r].outcome # "rejected"
       /\ AllSettled(run[r].removals) <=> run[r].outcome = "resolved"

\* Three stale rows, the removal of the second failed, the run resolved.
C2_Witness ==
  \E r \in DOMAIN run :
    /\ run[r].op = Revoke
    /\ run[r].outcome = "resolved"
    /\ Len(run[r].removals) = 3
    /\ run[r].removals[1].status = "ok"
    /\ run[r].removals[2].status = "failed"
    /\ run[r].removals[3].status = "ok"
    /\ Len(run[r].errors) = 1

C5_OnlyStaleActiveRowsRevoked ==
  \A r \in DOMAIN run :
    run[r].op = Revoke
    => /\ run[r].cutoff = run[r].startClock - MAX_DAYS_SINCE_LOGIN
       /\ \A i \in 1..Len(run[r].removals) :
            LET u == run[r].removals[i].login
            IN /\ u \in DOMAIN roster
               /\ roster[u].isActive
               /\ roster[u].signedInAt < run[r].cutoff
               /\ roster[u].pushedAt < run[r].cutoff
               /\ roster[u].createdAt < run[r].cutoff

\* A revoke run that issued removals and none for the active row jane, whose
\* signedInAt and pushedAt are before the cutoff and whose createdAt is not.
C5_Witness ==
  \E r \in DOMAIN run :
    /\ run[r].op = Revoke
    /\ run[r].removals # <<>>
    /\ jane \in DOMAIN roster
    /\ roster[jane].isActive
    /\ roster[jane].signedInAt < run[r].cutoff
    /\ roster[jane].pushedAt < run[r].cutoff
    /\ roster[jane].createdAt >= run[r].cutoff
    /\ ~Includes(RemovalLogins(run[r]), jane)

\* C6: a refresh run that resolves right after a refresh run that resolved (no other
\* run in between, the member list and the roster otherwise unchanged) changes no
\* row and emits no audit event.
C6_SecondRefreshChangesNothing ==
  \A r \in DOMAIN run :
    (run[r].op = Refresh /\ run[r].again /\ run[r].outcome = "resolved")
    => /\ run[r].updates = <<>>
       /\ run[r].audits = <<>>
       /\ roster = run[r].startRoster

\* A second refresh in a row that resolved over a roster with a member row and a
\* non-member row.
C6_Witness ==
  \E r \in DOMAIN run :
    /\ run[r].op = Refresh
    /\ run[r].again
    /\ run[r].outcome = "resolved"
    /\ \E u, v \in DOMAIN roster : roster[u].isActive /\ ~roster[v].isActive
    /\ run[r].logins # <<>>

\* The auditor's row is missing for the run.
AuditorMissing(rec) == rec.op # "idle" /\ rec.auditorUsername \notin DOMAIN rec.startRoster

\* C7: a run whose auditor has no roster row rejects at the lookup: it makes no
\* Directory Gateway call, issues no removal request, writes no row and emits no
\* event, and the roster and the organization stay as it found them.
C7_MissingAuditorAbortsBeforeAnyEffect ==
  \A r \in DOMAIN run :
    AuditorMissing(run[r])
    => /\ Range(run[r].calls) \subseteq {"User.findOne"}
       /\ run[r].removals = <<>>
       /\ run[r].updates = <<>>
       /\ run[r].audits = <<>>
       /\ run[r].errors = <<>>
       /\ run[r].infos = <<>>
       /\ roster = run[r].startRoster
       /\ Org = run[r].startOrg
       /\ run[r].pc # "findOne" => run[r].pc = "done" /\ run[r].outcome = "rejected"

\* A run of audit18F that rejected because the auditor's row is missing, over an
\* organization whose teams have members.
C7_Witness ==
  \E r \in DOMAIN run :
    /\ run[r].op = "audit18F"
    /\ AuditorMissing(run[r])
    /\ run[r].outcome = "rejected"
    /\ run[r].error = "TypeError"
    /\ \E t \in TeamNames : teamMembers[t] # {}
    /\ members18FOrg # {}

RosterRead(rec) == Range(rec.calls) \cap RosterCalls # {}
OrgRead(rec) == Range(rec.calls) \cap OrgListingCalls # {}
Effects(rec) == rec.removals # <<>> \/ rec.updates # <<>>

\* C8 as stated: a run that has changed a row's isActive or issued a removal request
\* has read both the Roster Store and the organization's membership before.
C8_EffectsAfterBothSourcesRead ==
  \A r \in DOMAIN run : Effects(run[r]) => RosterRead(run[r]) /\ OrgRead(run[r])

\* C8 amended: a run that has changed a row's isActive or issued a removal request
\* has read the Roster Store before; audit18F, refreshIsActiveUsers and
\* removeMembersWhoAreNotUsers have also listed the organization by then, and
\* revokeMembershipForInactiveUsers has made no listing call at all.
C8_EffectsAfterRosterReadRevokeListsNothing ==
  \A r \in DOMAIN run :
    /\ Effects(run[r])
       => /\ RosterRead(run[r])
          /\ run[r].op # Revoke => OrgRead(run[r])
    /\ run[r].op = Revoke => Range(run[r].calls) \cap ListingCalls = {}

\* A revoke run with removal requests out and no listing made.
C8_Witness ==
  \E r \in DOMAIN run :
    /\ run[r].op = Revoke
    /\ run[r].removals # <<>>
    /\ Range(run[r].calls) = RosterCalls

\* C9: while a run of audit18F, revokeMembershipForInactiveUsers or
\* removeMembersWhoAreNotUsers is under way or has just finished, the roster is the
\* one the run started from, whatever its removals did.
C9_OnlyRefreshWritesRoster ==
  \A r \in DOMAIN run :
    run[r].op \in {"audit18F", Revoke, RemoveMembers} => roster = run[r].startRoster

\* A revoke run with one removal that succeeded and one that failed.
C9_Witness ==
  \E r \in DOMAIN run :
    /\ run[r].op = Revoke
    /\ run[r].pc = "done"
    /\ \E i, j \in 1..Len(run[r].removals) :
         run[r].removals[i].status = "ok" /\ run[r].removals[j].status = "failed"
    /\ run[r].startOrg # Org
    /\ roster = run[r].startRoster

\* C10 as stated: a run that repeats, with the same arguments, the operation that
\* returned last, both with every call succeeding and no other run in between, ends
\* with the roster and the organization it started from, which are the ones the
\* first run left.
C10_SecondRunChangesNothing ==
  \A r \in DOMAIN run :
    (/\ run[r].pc = "done"
     /\ Clean(run[r])
     /\ run[r].again
     /\ run[r].sameArgs)
    => roster = run[r].startRoster /\ Org = run[r].startOrg

\* C10 amended: the same, where the second run of
\* revokeMembershipForInactiveUsers also has the cutoff of the first.
C10_SecondRunChangesNothingAtSameCutoff ==
  \A r \in DOMAIN run :
    (/\ run[r].pc = "done"
     /\ Clean(run[r])
     /\ run[r].again
     /\ run[r].sameArgs
     /\ run[r].op = Revoke => run[r].sameCutoff)
    => roster = run[r].startRoster /\ Org = run[r].startOrg

\* A second revoke run in a row, at the cutoff of the first, that issued removal
\* requests again, all of which succeeded.
C10_Witness ==
  \E r \in DOMAIN run :
    /\ run[r].op = Revoke
    /\ run[r].pc = "done"
    /\ Clean(run[r])
    /\ run[r].again
    /\ run[r].sameArgs
    /\ run[r].sameCutoff
    /\ run[r].removals # <<>>

\* The call a run made last.
LastCall(rec) == rec.calls[Len(rec.calls)]

\* A Roster Store query or a Directory Gateway listing of the run failed.
ReadFailed(rec) ==
  /\ rec.calls # <<>>
  /\ LastCall(rec) \in RosterCalls \cup ListingCalls
  /\ rec.error \in {"DatabaseError", "TransientGatewayError"}

\* C11: a run one of whose reads failed (a listing of members, admins or a team's
\* members, or a roster query) has rejected and is over; it has issued no removal
\* request, written no row and logged no removal, and the roster and the
\* organization are as it found them.
C11_ReadFailureAbortsCleanly ==
  \A r \in DOMAIN run :
    ReadFailed(run[r])
    => /\ run[r].outcome = "rejected"
       /\ run[r].pc = "done"
       /\ run[r].removals = <<>>
       /\ run[r].updates = <<>>
       /\ run[r].infos = <<>>
       /\ roster = run[r].startRoster
       /\ Org = run[r].startOrg

\* An audit18F run whose team listing failed after the reference group and the admins
\* were listed, over teams with a member who is in neither.
C11_Witness ==
  \E r \in DOMAIN run :
    /\ run[r].op = "audit18F"
    /\ ReadFailed(run[r])
    /\ LastCall(run[r]) = "getTeamMembers"
    /\ run[r].members18F # <<>>
    /\ \E t \in Range(run[r].fedUserTeams) : \E login \in teamMembers[t] :
         ~Includes(run[r].members18F, login) /\ ~Includes(run[r].adminFedUsers, login)

\* C12: an audit18F run one of whose removal requests was rejected has failed with
\* that rejection (RemovalError), whatever the other requests did, and has emitted
\* no error event for it.
C12_PruneRejectsOnRemovalFailure ==
  \A r \in DOMAIN run :
    (run[r].op = "audit18F" /\ Failed(run[r]) # {})
    => /\ run[r].outcome = "rejected"
       /\ run[r].error = "RemovalError"
       /\ run[r].errors = <<>>
       /\ run[r].audits = <<>>

\* An audit18F run with two removal requests, of which one succeeded and the other
\* was rejected, every request settled.
C12_Witness ==
  \E r \in DOMAIN run :
    /\ run[r].op = "audit18F"
    /\ run[r].pc = "done"
    /\ Len(run[r].removals) >= 2
    /\ \E i, j \in 1..Len(run[r].removals) :
         run[r].removals[i].status = "ok" /\ run[r].removals[j].status = "failed"
    /\ run[r].outcome = "rejected"

\* C13: a removeMembersWhoAreNotUsers run that has listed the members has issued one
\* removal request per login to remove, whichever of the requests fail; it has
\* emitted exactly one error event (error, login, action removeOrgMember) per failed
\* request and none for a successful one, never rejects, and has resolved once
\* every request has settled.
C13_RemoveMembersIsolatesFailures ==
  \A r \in DOMAIN run :
    (run[r].op = RemoveMembers
     /\ Returned(run[r], "getOrganizationMembers", "TransientGatewayError"))
    => /\ \A login \in Range(run[r].allMemberLogins) :
            ~Includes(run[r].allUsernames, toLowerCase(login))
            => Count(RemovalLogins(run[r]), login) = 1
       /\ Len(run[r].errors) = Cardinality(Failed(run[r]))
       /\ \A i \in Failed(run[r]) :
            Count(run[r].errors,
                  [label |-> "FEDERALIST_USERS", error |-> "RemovalError",
                   login |-> run[r].removals[i].login, action |-> "removeOrgMember"]) = 1
       /\ run[r].outcome # "rejected"
       /\ AllSettled(run[r].removals) <=> run[r].outcome = "resolved"

\* Two logins to remove, the removal of the first failed and that of the second
\* succeeded, the run resolved with one error event.
C13_Witness ==
  \E r \in DOMAIN run :
    /\ run[r].op = RemoveMembers
    /\ run[r].outcome = "resolved"
    /\ Len(run[r].removals) = 2
    /\ run[r].removals[1].status = "failed"
    /\ run[r].removals[2].status = "ok"
    /\ Len(run[r].errors) = 1
    /\ run[r].removals[2].login \notin orgMembers

\* C14: a run whose auditor has no roster row, once the lookup has returned, has
\* failed with the error NotFoundError and with no other.
C14_MissingAuditorFailsWithNotFoundError ==
  \A r \in DOMAIN run :
    (AuditorMissing(run[r]) /\ Returned(run[r], "User.findOne", "DatabaseError"))
    => run[r].outcome = "rejected" /\ run[r].error = "NotFoundError"

\* The members a single run of `op` with every call succeeding leaves of `members`,
\* over the roster `rows` and (for the revoke) at `cutoff`.
SingleRunMembers(op, members, rows, cutoff) ==
  IF op = Revoke
  THEN {m \in members :
          ~\E u \in DOMAIN rows :
             /\ SameLogin(m, u)
             /\ rows[u].isActive
             /\ rows[u].signedInAt < cutoff
             /\ rows[u].pushedAt < cutoff
             /\ rows[u].createdAt < cutoff}
  ELSE {m \in members : toLowerCase(m) \in DOMAIN rows}

\* Two invocations of `op` have both resolved, and every login either of them asked to
\* remove was removed by a request of one of them (the request of the other, for a
\* member already gone, may have succeeded or failed).
BothSettled(op) ==
  /\ DOMAIN run = {1, 2}
  /\ \A r \in DOMAIN run : run[r].op = op /\ run[r].pc = "done" /\ run[r].outcome = "resolved"
  /\ \A r \in DOMAIN run : \A login \in Range(RemovalLogins(run[r])) :
       \E q \in DOMAIN run : \E i \in 1..Len(run[q].removals) :
         run[q].removals[i] = [login |-> login, status |-> "ok"]

\* C15: when two runs of revokeMembershipForInactiveUsers, or two of
\* removeMembersWhoAreNotUsers, in any interleaving, have both resolved and each login
\* to remove was removed by one of them (whatever became of the other's request for a
\* member already removed), the organization's members are those a single run, invoked
\* when the second was, leaves of the members the first run found.
C15_TwoRunsLeaveWhatOneRunLeaves ==
  \A op \in {Revoke, RemoveMembers} :
    BothSettled(op)
    => /\ orgMembers = SingleRunMembers(op, run[1].startOrg.members, run[2].startRoster,
                                        run[2].cutoff)
       /\ orgAdmins \subseteq orgMembers
       /\ roster = run[1].startRoster

\* Two runs of one removal operation, both settled, that each issued a removal request
\* for the same login, which has left the organization.
C15_Witness ==
  \E op \in {Revoke, RemoveMembers} :
    /\ BothSettled(op)
    /\ \E login \in Range(RemovalLogins(run[1])) \cap Range(RemovalLogins(run[2])) :
         /\ \E m \in run[1].startOrg.members : SameLogin(m, login)
         /\ \A m \in orgMembers : ~SameLogin(m, login)
         /\ \A r \in DOMAIN run : \A i \in 1..Len(run[r].removals) :
              run[r].removals[i].login = login => run[r].removals[i].status = "ok"

\* The last request was a DELETE /v0/site/:site_id/user/:user_id with a valid csrf
\* token and an authenticated session, on a site that existed, naming `target`.
RemovalAsked(target) ==
  /\ response.method = "DELETE /v0/site/:site_id/user/:user_id"
  /\ response.csrf
  /\ response.session # NoSession
  /\ response.siteId \in DOMAIN response.before
  /\ response.userId = target

\* The request left the sites as they were.
Untouched == sites = response.before /\ response.did = {}

\* C16: every site has at least one user after any sequence of requests; an
\* authenticated DELETE /v0/site/:site_id/user/:user_id that names the only user of
\* the site is answered 400 with USER_REQUIRED and leaves the site's users unchanged.
C16_SiteKeepsAUser ==
  /\ \A id \in DOMAIN sites : sites[id].users # {}
  /\ \A u \in UserIds :
       (RemovalAsked(u) /\ response.before[response.siteId].users = {u})
       => /\ response.status = 400
          /\ response.message = "USER_REQUIRED"
          /\ Untouched

\* The only user of a site asked to be removed from it and was answered 400
\* USER_REQUIRED, the user having the permissions on the repository.
C16_Witness ==
  \E u \in SiteUsers :
    /\ RemovalAsked(u)
    /\ response.session = u
    /\ response.access
    /\ response.before[response.siteId].users = {u}
    /\ response.before[response.siteId].owner # u
    /\ response.message = "USER_REQUIRED"
    /\ sites[response.siteId].users = {u}

\* The last request asked to remove the owner of a site from the site's users, of
\* which the owner is one.
OwnerRemovalAsked ==
  /\ RemovalAsked(response.userId)
  /\ response.userId = response.before[response.siteId].owner
  /\ response.userId \in response.before[response.siteId].users

C18_UnassociatedUserIsRefused ==
  (/\ response.method \in {"GET /v0/site/:id", "PUT /v0/site/:id", "DELETE /v0/site/:id"}
   /\ response.csrf
   /\ response.session # NoSession
   /\ response.siteId \in DOMAIN response.before
   /\ response.session \notin response.before[response.siteId].users)
  => /\ response.status = 403
     /\ response.siteId \in DOMAIN sites
     /\ Untouched

\* A user who is not one of the site's asked to delete it and was answered 403,
\* after one of the site's users had renamed the repository.
C18_Witness ==
  /\ response.method = "DELETE /v0/site/:id"
  /\ response.csrf
  /\ response.session \in SiteUsers
  /\ response.siteId \in DOMAIN sites
  /\ response.session \notin sites[response.siteId].users
  /\ response.status = 403
  /\ sites[response.siteId].repository = "new-repo-name"

\* C19: an audit18F run that has listed a non-empty reference group (A), the admins
\* (B) and the audited teams as they were when it started has issued a removal
\* request for a login if and only if the login is a member of at least one audited
\* team and is in neither A nor B.
C19_PrunesTeamMembersOutsideBothGroups ==
  \A r \in DOMAIN run :
    (/\ run[r].op = "audit18F"
     /\ Returned(run[r], "getTeamMembers", "TransientGatewayError")
     /\ run[r].members18F # <<>>)
    => LET A == Range(run[r].members18F)
           B == Range(run[r].adminFedUsers)
           audited == UNION {run[r].startOrg.teams[t] : t \in Range(run[r].fedUserTeams)}
       IN /\ A = members18FOrg
          /\ B = run[r].startOrg.admins
          /\ Range(Flatten(run[r].teams)) = audited
          /\ Range(RemovalLogins(run[r])) = {login \in audited : login \notin A \cup B}
          /\ run[r].infos = RemovalLogins(run[r])

\* An audit18F run over a non-empty reference group that issued a removal for a team
\* member and none for another team member, who is in the reference group or an admin.
C19_Witness ==
  \E r \in DOMAIN run :
    /\ run[r].op = "audit18F"
    /\ run[r].members18F # <<>>
    /\ run[r].removals # <<>>
    /\ \E login \in Range(Flatten(run[r].teams)) :
         /\ Includes(run[r].members18F, login) \/ Includes(run[r].adminFedUsers, login)
         /\ ~Includes(RemovalLogins(run[r]), login)

\* The rows a run's updates wrote, as a set.
Written(rec) == {rec.updates[i].username : i \in 1..Len(rec.updates)}

\* C20: after a refreshIsActiveUsers run has resolved, with L the lower-cased member
\* logins it read: a row is active if and only if its username is in L, and the run
\* wrote exactly the rows whose isActive differed from that when it started.
C20_RefreshSetsIsActiveToMembership ==
  \A r \in DOMAIN run :
    (run[r].op = Refresh /\ run[r].outcome = "resolved")
    => LET L == {toLowerCase(login) : login \in run[r].startOrg.members}
       IN /\ Range(run[r].logins) = L
          /\ DOMAIN roster = DOMAIN run[r].startRoster
          /\ \A u \in DOMAIN roster :
               /\ roster[u].isActive <=> u \in L
               /\ u \in Written(run[r]) <=> (run[r].startRoster[u].isActive # (u \in L))
               /\ Count([i \in 1..Len(run[r].updates) |-> run[r].updates[i].username], u) <= 1
          /\ \A i \in 1..Len(run[r].updates) :
               run[r].updates[i].isActive = (run[r].updates[i].username \in L)

\* A resolved refresh that activated a row, deactivated another and left a third as
\* it was.
C20_Witness ==
  \E r \in DOMAIN run :
    /\ run[r].op = Refresh
    /\ run[r].outcome = "resolved"
    /\ \E i, j \in 1..Len(run[r].updates) :
         run[r].updates[i].isActive /\ ~run[r].updates[j].isActive
    /\ DOMAIN roster \ Written(run[r]) # {}

\* The rows whose isActive is not what it was when the run started.
Changed(rec) == {u \in DOMAIN roster : roster[u].isActive # rec.startRoster[u].isActive}

\* C21: at every point of a refreshIsActiveUsers run the audit events it has emitted
\* are one UPDATED event per row whose isActive it has changed, carrying the row's new
\* isActive, and none for any other row.
C21_OneAuditPerChangedRow ==
  \A r \in DOMAIN run :
    run[r].op = Refresh
    => /\ DOMAIN roster = DOMAIN run[r].startRoster
       /\ \A u \in DOMAIN roster :
            Count(run[r].audits,
                  [label |-> "UPDATED", username |-> u,
                   action |-> [isActive |-> roster[u].isActive]])
              = IF u \in Changed(run[r]) THEN 1 ELSE 0
       /\ Len(run[r].audits) = Cardinality(Changed(run[r]))

\* A resolved refresh that emitted an event for an activation and one for a
\* deactivation, and none for a row it left alone.
C21_Witness ==
  \E r \in DOMAIN run :
    /\ run[r].op = Refresh
    /\ run[r].outcome = "resolved"
    /\ \E i, j \in 1..Len(run[r].audits) :
         run[r].audits[i].action.isActive /\ ~run[r].audits[j].action.isActive
    /\ Cardinality(Changed(run[r])) < Cardinality(DOMAIN roster)

\* C22: within a refreshIsActiveUsers run no row is written by both updates: every
\* row appears at most once among the rows the run's updates returned, and a row the
\* first update activated is still active whatever the second update did.
C22_NoRowWrittenTwice ==
  \A r \in DOMAIN run :
    run[r].op = Refresh
    => \A i, j \in 1..Len(run[r].updates) :
         /\ run[r].updates[i].username = run[r].updates[j].username => i = j
         /\ run[r].updates[i].isActive => roster[run[r].updates[i].username].isActive

\* A run whose first update activated a row and whose second update has been made
\* and deactivated another.
C22_Witness ==
  \E r \in DOMAIN run :
    /\ run[r].op = Refresh
    /\ run[r].pc = "done"
    /\ Len(run[r].updates) >= 2
    /\ run[r].updates[1].isActive
    /\ ~run[r].updates[Len(run[r].updates)].isActive
    /\ roster[run[r].updates[1].username].isActive

\* The requests a revoke or removeMembersWhoAreNotUsers run has to issue, from what
\* its queries returned.
Batch(rec) ==
  IF rec.op = Revoke THEN rec.users
  ELSE SelectSeq(rec.allMemberLogins,
                 LAMBDA login : ~Includes(rec.allUsernames, toLowerCase(login)))

\* While removals are awaited every request of the batch is out and the run has not
\* resolved; a resolved run has no request left in flight.
FannedOut ==
  \A r \in DOMAIN run :
    run[r].op \in {Revoke, RemoveMembers}
    => /\ run[r].pc = "removing"
          => /\ RemovalLogins(run[r]) = Batch(run[r])
             /\ run[r].outcome = "pending"
             /\ ~AllSettled(run[r].removals)
       /\ run[r].outcome = "resolved"
          => /\ RemovalLogins(run[r]) = Batch(run[r])
             /\ AllSettled(run[r].removals)

\* No request is issued once the run waits on its removals.
NoLateRequest ==
  \A r \in DOMAIN run :
    (run[r].op \in {Revoke, RemoveMembers} /\ run[r].pc = "removing")
    => /\ RemovalLogins(run'[r]) = RemovalLogins(run[r])
       /\ run'[r].pc = "done" <=> AllSettled(run'[r].removals)
       /\ run'[r].outcome = "resolved" <=> AllSettled(run'[r].removals)

\* C23: revokeMembershipForInactiveUsers and removeMembersWhoAreNotUsers issue every
\* removal request of the batch before waiting on any of them, issue none afterwards,
\* and resolve exactly when the last request has settled, failed ones included.
C23_FanOutThenFanIn == []FannedOut /\ [][NoLateRequest]_vars

\* A batch of at least two requests of which one has failed and another is still in
\* flight, the run still pending.
C23_Witness ==
  \E r \in DOMAIN run :
    /\ run[r].op \in {Revoke, RemoveMembers}
    /\ run[r].outcome = "pending"
    /\ \E i, j \in 1..Len(run[r].removals) :
         run[r].removals[i].status = "failed" /\ run[r].removals[j].status = "pending"

\* The removals an audit18F run has to issue, from what its listings returned.
Eligible(rec) ==
  IF rec.members18F = <<>> THEN <<>>
  ELSE SelectSeq(Flatten(rec.teams),
                 LAMBDA login : /\ ~Includes(rec.members18F, login)
                                /\ ~Includes(rec.adminFedUsers, login))

\* C24: when a removal of an audit18F run is rejected the run is rejected although
\* every request of the batch has been issued, and every request that succeeds has
\* its effect; the next audit18F run over the same teams then issues removals for
\* exactly the members the rejected run left in place.
C24_PartialFailureLeavesTheRestToTheNextRun ==
  \A r \in DOMAIN run :
    run[r].op = "audit18F"
    => /\ Failed(run[r]) # {}
          => /\ run[r].outcome = "rejected"
             /\ run[r].error = "RemovalError"
             /\ RemovalLogins(run[r]) = Eligible(run[r])
             /\ \A i \in 1..Len(run[r].removals) :
                  run[r].removals[i].status = "ok"
                  => Without(orgMembers, run[r].removals[i].login) = orgMembers
       /\ (/\ run[r].partial.failed # {}
           /\ run[r].partial.fedUserTeams = run[r].fedUserTeams
           /\ Returned(run[r], "getTeamMembers", "TransientGatewayError"))
          => Range(RemovalLogins(run[r])) = run[r].partial.failed \ run[r].partial.removed

\* An audit18F run that follows one which removed a member and failed to remove
\* another, and has removed the one left behind.
C24_Witness ==
  \E r \in DOMAIN run :
    /\ run[r].op = "audit18F"
    /\ run[r].partial.removed # {}
    /\ run[r].partial.failed \ run[r].partial.removed # {}
    /\ run[r].partial.fedUserTeams = run[r].fedUserTeams
    /\ run[r].removals # <<>>
    /\ run[r].outcome = "resolved"

\* No member of the organization goes by the login `u`.
Gone(members, u) == \A m \in members : ~SameLogin(m, u)

\* Active in the roster and older than `cutoff` on all three timestamps.
Stale(rows, u, cutoff) ==
  /\ rows[u].isActive
  /\ rows[u].signedInAt < cutoff
  /\ rows[u].pushedAt < cutoff
  /\ rows[u].createdAt < cutoff

\* C25: revokeMembershipForInactiveUsers leaves isActive alone, so a row whose member
\* it removed is still active and every later revoke run that queries the roster
\* issues a removal for it again, member or not; a refreshIsActiveUsers run that
\* resolves leaves every row without a member inactive, and a revoke run issues no
\* removal for an inactive row.
C25_RevokeRepeatsUntilRefresh ==
  \A r \in DOMAIN run :
    /\ (run[r].op = Revoke /\ Returned(run[r], "User.findAll", "DatabaseError"))
       => /\ roster = run[r].startRoster
          /\ \A u \in DOMAIN roster :
               /\ Stale(roster, u, run[r].startClock - MAX_DAYS_SINCE_LOGIN)
                  => Count(RemovalLogins(run[r]), u) = 1
               /\ ~roster[u].isActive => Count(RemovalLogins(run[r]), u) = 0
          /\ \A i \in 1..Len(run[r].removals) :
               roster[run[r].removals[i].login].isActive
    /\ (run[r].op = Refresh /\ run[r].outcome = "resolved")
       => \A u \in DOMAIN roster : Gone(orgMembers, u) => ~roster[u].isActive

\* A revoke run that follows a revoke run whose removals all succeeded, and has again
\* removed, with success, a login that was no member when it started and whose row
\* is still active.
C25_Witness ==
  \E r \in DOMAIN run :
    /\ run[r].op = Revoke
    /\ run[r].again
    /\ \E i \in 1..Len(run[r].removals) :
         /\ run[r].removals[i].status = "ok"
         /\ Gone(run[r].startOrg.members, run[r].removals[i].login)
         /\ roster[run[r].removals[i].login].isActive

\* The rows the first update of a refresh run has to activate: inactive at the start,
\* with a username that is in the lower-cased member list.
Activated(rec) ==
  {u \in DOMAIN rec.startRoster :
     Includes(rec.logins, u) /\ ~rec.startRoster[u].isActive}

\* The first update of the run is applied and audited, and nothing else is.
OnlyActivationsDone(rec) ==
  /\ DOMAIN roster = DOMAIN rec.startRoster
  /\ \A u \in DOMAIN roster :
       roster[u].isActive = (rec.startRoster[u].isActive \/ u \in Activated(rec))
  /\ Len(rec.audits) = Cardinality(Activated(rec))
  /\ \A u \in Activated(rec) :
       Count(rec.audits,
             [label |-> "UPDATED", username |-> u, action |-> [isActive |-> TRUE]]) = 1

\* C26: refreshIsActiveUsers is not atomic: before the deactivating update is
\* attempted the activations are in the roster and their audit events emitted, and
\* when the deactivating update fails the run is rejected with the activations still
\* applied and audited and no row deactivated.
C26_FailedDeactivationKeepsActivations ==
  \A r \in DOMAIN run :
    run[r].op = Refresh
    => /\ run[r].pc = "deactivate" => OnlyActivationsDone(run[r])
       /\ Count(run[r].calls, "User.update") = 2 /\ run[r].outcome = "rejected"
          => /\ OnlyActivationsDone(run[r])
             /\ run[r].error = "DatabaseError"

\* A refresh run rejected by its second update after it had activated a row, with an
\* active row left that the second update would have deactivated.
C26_Witness ==
  \E r \in DOMAIN run :
    /\ run[r].op = Refresh
    /\ run[r].outcome = "rejected"
    /\ Count(run[r].calls, "User.update") = 2
    /\ Activated(run[r]) # {}
    /\ \E u \in DOMAIN roster : roster[u].isActive /\ ~Includes(run[r].logins, u)

\* The audit events of both runs for the row `u` with the value `isActive`.
AuditsOf(u, isActive) ==
  Count(run[1].audits \o run[2].audits,
        [label |-> "UPDATED", username |-> u, action |-> [isActive |-> isActive]])

\* C27: of two interleaved refreshIsActiveUsers runs over the same member list, no row
\* is written by both and none twice by one; across both runs there is one audit
\* event for each row whose isActive differs from what it was before the first run
\* and none for any other row; and once a run has resolved every row is active
\* exactly when its username is in the lower-cased member list.
C27_TwoRefreshesTransitionEachRowOnce ==
  (run[1].op = Refresh)
  => /\ Written(run[1]) \cap Written(run[2]) = {}
     /\ \A r \in DOMAIN run : Len(run[r].updates) = Cardinality(Written(run[r]))
     /\ DOMAIN roster = DOMAIN run[1].startRoster
     /\ \A u \in DOMAIN roster :
          /\ AuditsOf(u, roster[u].isActive)
               = IF roster[u].isActive # run[1].startRoster[u].isActive THEN 1 ELSE 0
          /\ AuditsOf(u, ~roster[u].isActive) = 0
     /\ (\E r \in DOMAIN run : run[r].outcome = "resolved")
        => \A u \in DOMAIN roster :
             roster[u].isActive <=> (\E m \in orgMembers : toLowerCase(m) = u)

\* Two resolved runs that shared the work: each changed a row the other did not.
C27_Witness ==
  /\ \A r \in DOMAIN run : run[r].op = Refresh /\ run[r].outcome = "resolved"
  /\ Written(run[1]) # {}
  /\ Written(run[2]) # {}

\* In how many of the teams the run audits the login was a member when it started.
TeamsWith(rec, login) ==
  Cardinality({i \in 1..Len(rec.fedUserTeams) :
                 login \in rec.startOrg.teams[rec.fedUserTeams[i]]})

\* C28: audit18F does not de-duplicate: over a non-empty reference group, a login that
\* is neither in the reference group nor an admin gets one removal request and one
\* log line for each audited team it is a member of, and any other login none.
C28_OneRemovalPerTeamMembership ==
  \A r \in DOMAIN run :
    (/\ run[r].op = "audit18F"
     /\ Returned(run[r], "getTeamMembers", "TransientGatewayError")
     /\ run[r].members18F # <<>>)
    => \A login \in run[r].startOrg.members :
         LET k == IF login \in members18FOrg \cup run[r].startOrg.admins
                  THEN 0 ELSE TeamsWith(run[r], login)
         IN /\ Count(RemovalLogins(run[r]), login) = k
            /\ Count(run[r].infos, login) = k

\* A login that is a member of two audited teams and got two removal requests.
C28_Witness ==
  \E r \in DOMAIN run :
    /\ run[r].op = "audit18F"
    /\ \E login \in run[r].startOrg.members :
         /\ TeamsWith(run[r], login) = 2
         /\ Count(RemovalLogins(run[r]), login) = 2
         /\ Count(run[r].infos, login) = 2

\* C29: revokeMembershipForInactiveUsers exempts nobody: when the auditor's own row is
\* active and stale a removal is issued for the auditor's login, and so it is for the
\* stale active row of an organization admin; a request that succeeds takes the login
\* out of the members and the admins.
C29_RevokeSparesNeitherAuditorNorAdmins ==
  \A r \in DOMAIN run :
    (run[r].op = Revoke /\ Returned(run[r], "User.findAll", "DatabaseError"))
    => /\ \A u \in DOMAIN run[r].startRoster :
            (/\ u = run[r].auditorUsername
                \/ \E a \in run[r].startOrg.admins : SameLogin(a, u)
             /\ Stale(run[r].startRoster, u, run[r].cutoff))
            => Includes(RemovalLogins(run[r]), u)
       /\ \A i \in 1..Len(run[r].removals) :
            run[r].removals[i].status = "ok"
            => /\ Gone(orgMembers, run[r].removals[i].login)
               /\ Gone(orgAdmins, run[r].removals[i].login)

\* A revoke run that removed its own auditor, an admin of the organization.
C29_Witness ==
  \E r \in DOMAIN run :
    /\ run[r].op = Revoke
    /\ run[r].auditorUsername \in run[r].startOrg.admins
    /\ \E i \in 1..Len(run[r].removals) :
         /\ run[r].removals[i].login = run[r].auditorUsername
         /\ run[r].removals[i].status = "ok"
    /\ run[r].auditorUsername \notin orgMembers

\* The rows that were active when the run started.
ActiveAtStart(rec) == {u \in DOMAIN rec.startRoster : rec.startRoster[u].isActive}

\* C30: refreshIsActiveUsers has no guard for an empty member list: it then activates
\* no row, and when it resolves every row that was active is inactive, with one audit
\* event each; audit18F over an empty reference group issues no removal and resolves.
C30_EmptyMemberListDeactivatesEveryRow ==
  \A r \in DOMAIN run :
    /\ (/\ run[r].op = Refresh
        /\ Returned(run[r], "getOrganizationMembers", "TransientGatewayError")
        /\ run[r].logins = <<>>)
       => /\ run[r].startOrg.members = {}
          /\ \A i \in 1..Len(run[r].updates) : ~run[r].updates[i].isActive
          /\ run[r].outcome = "resolved"
             => /\ \A u \in DOMAIN roster : ~roster[u].isActive
                /\ Written(run[r]) = ActiveAtStart(run[r])
                /\ Len(run[r].audits) = Cardinality(ActiveAtStart(run[r]))
                /\ \A u \in ActiveAtStart(run[r]) :
                     Count(run[r].audits,
                           [label |-> "UPDATED", username |-> u,
                            action |-> [isActive |-> FALSE]]) = 1
    /\ (/\ run[r].op = "audit18F"
        /\ Returned(run[r], "getTeamMembers", "TransientGatewayError")
        /\ run[r].members18F = <<>>)
       => run[r].removals = <<>> /\ run[r].outcome = "resolved"

\* A resolved refresh over an empty member list that deactivated at least two rows.
C30_Witness ==
  \E r \in DOMAIN run :
    /\ run[r].op = Refresh
    /\ run[r].outcome = "resolved"
    /\ run[r].logins = <<>>
    /\ Cardinality(ActiveAtStart(run[r])) >= 2
    /\ \A u \in DOMAIN roster : ~roster[u].isActive

====
